---- MODULE Spec2Model ----
(***************************************************************************)
(* A model of comicMerge.py: the natural sort key, the output file names,  *)
(* the chapter merge driver, the archive packager and main.                *)
(*                                                                         *)
(* Strings are sequences of code points (Python str), so that splitting,   *)
(* lower-casing, integer conversion, zero padding and comparison are       *)
(* computed and not assumed.  A path is a sequence of names.               *)
(***************************************************************************)
EXTENDS Integers, Sequences, FiniteSets, TLC

\* ------------------------------------------------------------------ bounds
\* Longest file name drawn for the sort key (SpecSort).
MaxLen == 3
\* Page indexes are drawn within this distance of a power of ten (SpecName).
Window == 2
\* Most chapters of a source library, most pages of all its chapters (Spec).
MaxChapters == 2
MaxPages == 2

\* The zero-padding width of f"{page_number:05}".
PadWidth == 5

\* ----------------------------------------------------------------- strings
Min(a, b) == IF a < b THEN a ELSE b

\* Python's < on two str values: code point by code point, a proper prefix first.
StrLess(a, b) ==
    \E i \in 1..(Min(Len(a), Len(b)) + 1) :
        /\ \A k \in 1..(i - 1) : a[k] = b[k]
        /\ \/ i > Len(a) /\ i <= Len(b)
           \/ i <= Len(a) /\ i <= Len(b) /\ a[i] < b[i]

\* The characters the regex class \d matches (Unicode category Nd; here 0-9).
IsDecimal(c) == c \in 48..57

\* The characters str.isdigit accepts: the decimals and the superscript digits
\* (code points 178, 179, 185), which int() refuses.
IsDigitChar(c) == IsDecimal(c) \/ c \in {178, 179, 185}

\* str.isdigit: a non-empty string of digit characters.
IsDigitStr(s) == Len(s) > 0 /\ \A i \in 1..Len(s) : IsDigitChar(s[i])

\* str.lower on one character.
LowerChar(c) == IF c \in 65..90 THEN c + 32 ELSE c

Lower(s) == [i \in 1..Len(s) |-> LowerChar(s[i])]

\* int(s) succeeds on a non-empty string of decimals only.
IntParses(s) == Len(s) > 0 /\ \A i \in 1..Len(s) : IsDecimal(s[i])

RECURSIVE IntValue(_)
IntValue(s) ==
    IF s = <<>> THEN 0
    ELSE 10 * IntValue(SubSeq(s, 1, Len(s) - 1)) + (s[Len(s)] - 48)

\* re.split(r'(\d+)', s): the pieces between the digit runs and the digit runs,
\* alternating, first and last piece possibly empty.
RECURSIVE SplitFrom(_, _, _, _, _)
SplitFrom(s, i, cur, inDigits, acc) ==
    IF i > Len(s)
    THEN IF inDigits THEN Append(Append(acc, cur), <<>>) ELSE Append(acc, cur)
    ELSE IF IsDecimal(s[i]) = inDigits
         THEN SplitFrom(s, i + 1, Append(cur, s[i]), inDigits, acc)
         ELSE SplitFrom(s, i + 1, <<s[i]>>, ~inDigits, Append(acc, cur))

ReSplit(s) == SplitFrom(s, 1, <<>>, FALSE, <<>>)

\* One element of the key: an int or a str.
IntTok(n) == [isInt |-> TRUE, n |-> n, s |-> <<>>]
StrTok(s) == [isInt |-> FALSE, n |-> 0, s |-> s]

\* natural_sort_key(filename): ok is FALSE when int(part) raises ValueError.
NaturalSortKey(filename) ==
    LET parts == ReSplit(filename)
    IN  [ok   |-> \A i \in 1..Len(parts) :
                      IsDigitStr(parts[i]) => IntParses(parts[i]),
         toks |-> [i \in 1..Len(parts) |->
                      IF IsDigitStr(parts[i]) /\ IntParses(parts[i])
                      THEN IntTok(IntValue(parts[i]))
                      ELSE StrTok(Lower(parts[i]))]]

\* Python's comparison of two lists: the first position where the elements
\* differ decides, by < on two ints or two strs (TypeError on one of each);
\* without one, the shorter list is the smaller.
KeyCmp(k1, k2) ==
    LET n == Min(Len(k1), Len(k2))
        D == {i \in 1..n : k1[i] # k2[i]}
    IN  IF D = {}
        THEN IF Len(k1) < Len(k2) THEN "lt"
             ELSE IF Len(k1) > Len(k2) THEN "gt" ELSE "eq"
        ELSE LET i == CHOOSE j \in D : \A k \in D : j <= k
                 a == k1[i]
                 b == k2[i]
             IN  IF a.isInt # b.isInt THEN "TypeError"
                 ELSE IF a.isInt
                      THEN IF a.n < b.n THEN "lt" ELSE "gt"
                      ELSE IF StrLess(a.s, b.s) THEN "lt" ELSE "gt"

\* key(a) < key(b), for names whose keys exist.
NatLess(a, b) == KeyCmp(NaturalSortKey(a).toks, NaturalSortKey(b).toks) = "lt"

\* sorted() computes the key of every name once, then compares the keys.
Keyed(S) == {[name |-> x, key |-> NaturalSortKey(x)] : x \in S}

\* sorted(names, key=natural_sort_key) raises: a key raises, or two keys do not compare.
SortRaises(S) ==
    LET K == Keyed(S)
    IN  \/ \E a \in K : ~a.key.ok
        \/ \E a, b \in K : KeyCmp(a.key.toks, b.key.toks) = "TypeError"

\* The lists sorted() can return for a directory listing S: os.listdir's order is
\* arbitrary and the sort is stable, so names with equal keys come in any order.
RECURSIVE SortedBy(_)
SortedBy(K) ==
    IF K = {} THEN {<<>>}
    ELSE UNION {{<<m.name>> \o r : r \in SortedBy(K \ {m})} :
                m \in {x \in K : \A y \in K : KeyCmp(y.key.toks, x.key.toks) # "lt"}}

\* sorted(names) without the key: plain character order.
RECURSIVE PlainSortedLists(_)
PlainSortedLists(S) ==
    IF S = {} THEN {<<>>}
    ELSE LET m == CHOOSE x \in S : \A y \in S : ~StrLess(y, x)
         IN  {<<m>> \o r : r \in PlainSortedLists(S \ {m})}

SortedLists(S) == SortedBy(Keyed(S))

\* ------------------------------------------------------------ output names
RECURSIVE Digits(_)
Digits(n) == IF n < 10 THEN <<48 + n>> ELSE Append(Digits(n \div 10), 48 + (n % 10))

\* f"{n}": the decimal digits without padding.
FormatIndexUnpadded(n) == Digits(n)

\* f"{n:05}": the decimal digits, zero-filled on the left up to PadWidth.
FormatIndex(n) ==
    LET d == Digits(n)
    IN  [i \in 1..(IF Len(d) < PadWidth THEN PadWidth - Len(d) ELSE 0) |-> 48] \o d

\* f"{page_number:05}_00_{subfolder}.png"
TitleFileName(n, subfolder) ==
    FormatIndex(n) \o <<95, 48, 48, 95>> \o subfolder \o <<46, 112, 110, 103>>

\* f"{page_number:05}_{img}"
PageFileName(n, img) == FormatIndex(n) \o <<95>> \o img

\* -------------------------------------------------------------- filesystem
\* The filesystem maps each existing path to its node.
DirNode == [kind |-> "dir", data |-> <<>>, entries |-> <<>>]
FileNode(d) == [kind |-> "file", data |-> d, entries |-> <<>>]
\* A zip container: its entries in the order written.
ZipNode(es) == [kind |-> "zip", data |-> <<>>, entries |-> es]
\* ZipFile.write(filepath, arcname): the entry's name and the bytes read.
ZipEntry(arcname, node) == [name |-> arcname, node |-> node]

IsPrefix(p, q) == Len(p) <= Len(q) /\ SubSeq(q, 1, Len(p)) = p
\* p lies strictly below directory d.
Under(d, p) == IsPrefix(d, p) /\ p # d

ExistsIn(f, p) == p \in DOMAIN f
IsDirIn(f, p) == p \in DOMAIN f /\ f[p].kind = "dir"
\* os.listdir(d): the names of d's immediate entries, in no particular order.
ListDirIn(f, d) == {p[Len(p)] : p \in {q \in DOMAIN f : Len(q) = Len(d) + 1 /\ IsPrefix(d, q)}}
\* Create or overwrite the node at p.
Put(f, p, node) == (p :> node) @@ f
\* os.path.basename(os.path.normpath(p))
Basename(p) == p[Len(p)]
\* os.path.relpath(p, base), for p below base.
RelPath(p, base) == SubSeq(p, Len(base) + 1, Len(p))

\* The names between the slashes of a relative path.
RECURSIVE ComponentsFrom(_, _, _, _)
ComponentsFrom(s, i, cur, acc) ==
    IF i > Len(s) THEN (IF cur = <<>> THEN acc ELSE Append(acc, cur))
    ELSE IF s[i] = 47
         THEN ComponentsFrom(s, i + 1, <<>>, IF cur = <<>> THEN acc ELSE Append(acc, cur))
         ELSE ComponentsFrom(s, i + 1, Append(cur, s[i]), acc)
\* os.path.join(d, rel) for a relative rel.
JoinPath(d, rel) == d \o ComponentsFrom(rel, 1, <<>>, <<>>)

\* text.split(): the maximal runs of non-whitespace characters.
IsSpace(c) == c \in {9, 10, 11, 12, 13, 32}
RECURSIVE WordsFrom(_, _, _, _)
WordsFrom(s, i, cur, acc) ==
    IF i > Len(s) THEN (IF cur = <<>> THEN acc ELSE Append(acc, cur))
    ELSE IF IsSpace(s[i])
         THEN WordsFrom(s, i + 1, <<>>, IF cur = <<>> THEN acc ELSE Append(acc, cur))
         ELSE WordsFrom(s, i + 1, Append(cur, s[i]), acc)
Words(s) == WordsFrom(s, 1, <<>>, <<>>)
\* wrap_text reads words[0]: IndexError on a caption without a word.
WrapRaises(text) == Words(text) = <<>>
\* The bytes image.save writes for a caption (the layout itself is not modelled:
\* the image is a function of the caption).
RenderImage(caption) == <<0>> \o caption

\* --------------------------------------------------------------- the names
\* script_dir: the directory of comicMerge.py ("tool"), and the script's name.
ScriptDir == << <<116, 111, 111, 108>> >>
ScriptName == <<99, 111, 109, 105, 99, 77, 101, 114, 103, 101, 46, 112, 121>>
\* A library elsewhere ("Book") and a path that does not exist ("Nope").
BookDir == << <<66, 111, 111, 107>> >>
NopeDir == << <<78, 111, 112, 101>> >>
\* "_merged_comic" and ".cbz"
MergedSuffix == <<95, 109, 101, 114, 103, 101, 100, 95, 99, 111, 109, 105, 99>>
CbzSuffix == <<46, 99, 98, 122>>
\* Chapter names "c2", "c10", "C2", "c1" and page names "p10", "p2", "P2", "p1".
ChapterPool == << <<99, 50>>, <<99, 49, 48>>, <<67, 50>>, <<99, 49>> >>
PagePool == << <<112, 49, 48>>, <<112, 50>>, <<80, 50>>, <<112, 49>> >>
\* A file among the chapters ("c5.txt"), files left by an earlier run
\* ("00009_old", "sub/x") and a custom archive name ("my"), which --file_name
\* gives alone or as a path into the output folder ("<output folder>/my").
NoteName == <<99, 53, 46, 116, 120, 116>>
StaleName == <<48, 48, 48, 48, 57, 95, 111, 108, 100>>
StaleDir == <<115, 117, 98>>
StaleSub == <<120>>
CustomName == <<109, 121>>

\* ------------------------------------------------------------------- state
VARIABLES
    pc,             \* where main is: start, merge, loop, copy, cbz, done, crashed
    fs,             \* the filesystem
    fs0,            \* the filesystem when main started
    test_image,     \* args.test_image: given (else None) and its text
    file_name,      \* args.file_name: given (else None) and its text
    big_folder_path,\* the path typed at the prompt
    output_folder,  \* main's output_folder
    cbz_file,       \* main's cbz_file
    subfolders,     \* merge_folders: the sorted listing of the library
    index,          \* merge_folders: the position in subfolders (from 1)
    images,         \* merge_folders: the sorted listing of the current chapter
    imgIndex,       \* merge_folders: the position in images (from 1)
    page_number,    \* merge_folders: the next Page Index
    emitted,        \* the output items written so far, in order
    calls,          \* which of show, input, merge_folders, create_cbz were called
    raised,         \* the call that raised and ended the run, "" while none has
    fa, fb, sortedOut,                  \* SpecSort: two file names and sorted([fa, fb])
    itemI, itemJ, fileI, fileJ          \* SpecName: two output items and their file names

mainVars == <<pc, fs, fs0, test_image, file_name, big_folder_path, output_folder,
              cbz_file, subfolders, index, images, imgIndex, page_number, emitted,
              calls, raised>>
sortVars == <<fa, fb, sortedOut>>
nameVars == <<itemI, itemJ, fileI, fileJ>>
vars == <<mainVars, sortVars, nameVars>>

\* An optional string argument: None, or a string.
NoArg == [given |-> FALSE, text |-> <<>>]
Arg(t) == [given |-> TRUE, text |-> t]
\* Python's truth of an optional string: None and "" are false.
Truthy(a) == a.given /\ a.text # <<>>

\* The existence check left out.
PathExistsAlways(p) == TRUE

\* os.path.exists(p), os.path.isdir(p) on the current filesystem.
PathExists(p) == ExistsIn(fs, p)
IsDir(p) == IsDirIn(fs, p)

\* ------------------------------------------------------- the initial states
\* A library: for each of its chapters (the first of ChapterPool) how many pages
\* it holds (the first of PagePool), MaxPages at most in all.
RECURSIVE SumTo(_, _)
SumTo(lib, n) == IF n = 0 THEN 0 ELSE SumTo(lib, n - 1) + lib[n]

Libraries ==
    {lib \in UNION {[1..k -> 0..Min(MaxPages, Len(PagePool))] :
                    k \in 0..Min(MaxChapters, Len(ChapterPool))} :
        SumTo(lib, Len(lib)) <= MaxPages}

PageData(c, g) == c \o <<47>> \o g

\* The nodes of library lib placed at directory d.
LibraryNodes(d, lib) ==
    {<<d \o <<ChapterPool[i]>>, DirNode>> : i \in 1..Len(lib)}
    \cup UNION {{<<d \o <<ChapterPool[i], PagePool[j]>>,
                  FileNode(PageData(ChapterPool[i], PagePool[j]))>> : j \in 1..lib[i]} :
                i \in 1..Len(lib)}

\* What an earlier run left behind: nothing; an output folder with a file and the
\* archive; an output folder with a subfolder.
PreStates == {"fresh", "rerun", "nested"}

\* main's output_folder and cbz_file for typed path p and --file_name fn.
OutputFolderOf(p) == ScriptDir \o <<Basename(p) \o MergedSuffix>>
CbzFileOf(p, fn) ==
    JoinPath(ScriptDir, IF Truthy(fn) THEN fn.text ELSE Basename(p) \o CbzSuffix)

\* The --file_name values: none, a name, a path into the output folder.
FileNames(p) ==
    {NoArg, Arg(CustomName), Arg(Basename(p) \o MergedSuffix \o <<47>> \o CustomName)}

\* An earlier run with the same arguments left its output folder, with a file the
\* library no longer yields, and its archive.
StaleNodes(p, fn, pre) ==
    IF pre = "rerun"
    THEN {<<OutputFolderOf(p), DirNode>>,
          <<OutputFolderOf(p) \o <<StaleName>>, FileNode(StaleName)>>,
          <<CbzFileOf(p, fn), ZipNode(<<ZipEntry(<<StaleName>>, FileNode(StaleName))>>)>>}
    ELSE IF pre = "nested"
    THEN {<<OutputFolderOf(p), DirNode>>,
          <<OutputFolderOf(p) \o <<StaleDir>>, DirNode>>,
          <<OutputFolderOf(p) \o <<StaleDir, StaleSub>>, FileNode(StaleSub)>>}
    ELSE {}

FsOf(S) == [p \in {e[1] : e \in S} |-> (CHOOSE e \in S : e[1] = p)[2]]

\* The paths the user may type: a library elsewhere, the script's own directory
\* (the chapters lie beside comicMerge.py), a path that does not exist, a file.
TypedPaths == {BookDir, ScriptDir, NopeDir, ScriptDir \o <<ScriptName>>}

InitialFs(p, fn, lib, pre) ==
    FsOf({<<ScriptDir, DirNode>>, <<ScriptDir \o <<ScriptName>>, FileNode(ScriptName)>>}
         \cup (IF p = ScriptDir THEN LibraryNodes(ScriptDir, lib)
               ELSE {<<BookDir, DirNode>>} \cup LibraryNodes(BookDir, lib)
                    \cup {<<BookDir \o <<NoteName>>, FileNode(NoteName)>>})
         \cup StaleNodes(p, fn, pre))

IdleSort == fa = <<>> /\ fb = <<>> /\ sortedOut = <<>>
IdleName == itemI = <<>> /\ itemJ = <<>> /\ fileI = <<>> /\ fileJ = <<>>

Init ==
    /\ pc = "start"
    /\ test_image \in {NoArg, Arg(<<>>), Arg(<<32>>), Arg(<<116>>)}
    /\ big_folder_path \in TypedPaths
    /\ file_name \in FileNames(big_folder_path)
    /\ \E lib \in Libraries, pre \in PreStates :
           fs0 = InitialFs(big_folder_path, file_name, lib, pre)
    /\ fs = fs0
    /\ output_folder = <<>>
    /\ cbz_file = <<>>
    /\ subfolders = <<>>
    /\ index = 0
    /\ images = <<>>
    /\ imgIndex = 0
    /\ page_number = 0
    /\ emitted = <<>>
    /\ calls = {}
    /\ raised = ""
    /\ IdleSort
    /\ IdleName

\* -------------------------------------------------------------------- main
mergeLocals == <<subfolders, index, images, imgIndex, page_number, emitted>>
argVars == <<test_image, file_name, big_folder_path, fs0>>

\* main, lines 134-137: the preview branch.  create_text_image(show_preview=True)
\* renders, then image.show(); nothing is saved.
Preview ==
    /\ pc = "start"
    /\ Truthy(test_image)
    /\ IF WrapRaises(test_image.text)
       THEN pc' = "crashed" /\ raised' = "render" /\ calls' = calls
       ELSE pc' = "done" /\ raised' = raised /\ calls' = calls \cup {"show"}
    /\ UNCHANGED <<fs, output_folder, cbz_file, mergeLocals, argVars, sortVars, nameVars>>

\* main, lines 140-144: the prompt, and the path that does not exist.
ReportMissing ==
    /\ pc = "start"
    /\ ~Truthy(test_image)
    /\ ~PathExists(big_folder_path)
    /\ calls' = calls \cup {"input"}
    /\ pc' = "done"
    /\ UNCHANGED <<fs, output_folder, cbz_file, raised, mergeLocals, argVars, sortVars, nameVars>>

\* main, lines 140-153: the prompt, then the output folder and the archive path,
\* both in the script's directory.
Derive ==
    /\ pc = "start"
    /\ ~Truthy(test_image)
    /\ PathExists(big_folder_path)
    /\ calls' = calls \cup {"input"}
    /\ output_folder' = ScriptDir \o <<Basename(big_folder_path) \o MergedSuffix>>
    /\ cbz_file' = JoinPath(ScriptDir, IF Truthy(file_name) THEN file_name.text
                                       ELSE Basename(big_folder_path) \o CbzSuffix)
    /\ pc' = "merge"
    /\ UNCHANGED <<fs, raised, mergeLocals, argVars, sortVars, nameVars>>

\* ----------------------------------------------------------- merge_folders
\* Lines 89-95: create the output folder if absent, list and sort the library.
MergeBegin ==
    /\ pc = "merge"
    /\ calls' = calls \cup {"merge_folders"}
    /\ LET made == IF PathExists(output_folder) THEN fs ELSE Put(fs, output_folder, DirNode)
           names == ListDirIn(made, big_folder_path)
       IN  /\ fs' = made
           /\ IF ~IsDirIn(made, big_folder_path)
              THEN pc' = "crashed" /\ raised' = "listdir" /\ UNCHANGED mergeLocals
              ELSE IF SortRaises(names)
              THEN pc' = "crashed" /\ raised' = "sorted" /\ UNCHANGED mergeLocals
              ELSE /\ subfolders' \in SortedLists(names)
                   /\ index' = 1
                   /\ page_number' = 1
                   /\ pc' = "loop"
                   /\ UNCHANGED <<raised, images, imgIndex, emitted>>
    /\ UNCHANGED <<output_folder, cbz_file, argVars, sortVars, nameVars>>

subfolder == subfolders[index]
subfolder_path == big_folder_path \o <<subfolder>>
chapter_image_path == output_folder \o <<TitleFileName(page_number, subfolder)>>

\* Lines 98-100, 116: an entry that is no directory is passed over.
SkipEntry ==
    /\ pc = "loop"
    /\ index <= Len(subfolders)
    /\ ~IsDir(subfolder_path)
    /\ index' = index + 1
    /\ UNCHANGED <<pc, fs, output_folder, cbz_file, subfolders, images, imgIndex,
                   page_number, emitted, calls, raised, argVars, sortVars, nameVars>>

\* Lines 100-108: render the chapter's title image, count it, list and sort the
\* chapter's entries.
RenderTitle ==
    /\ pc = "loop"
    /\ index <= Len(subfolders)
    /\ IsDir(subfolder_path)
    /\ ~WrapRaises(subfolder)
    /\ LET saved == Put(fs, chapter_image_path, FileNode(RenderImage(subfolder)))
           names == ListDirIn(saved, subfolder_path)
       IN  /\ fs' = saved
           /\ emitted' = Append(emitted,
                  [index |-> page_number, kind |-> "title", chapter |-> subfolder,
                   name |-> TitleFileName(page_number, subfolder),
                   node |-> FileNode(RenderImage(subfolder))])
           /\ page_number' = page_number + 1
           /\ IF SortRaises(names)
              THEN pc' = "crashed" /\ raised' = "sorted" /\ UNCHANGED <<images, imgIndex>>
              ELSE /\ images' \in SortedLists(names)
                   /\ imgIndex' = 1
                   /\ pc' = "copy"
                   /\ raised' = raised
    /\ UNCHANGED <<output_folder, cbz_file, subfolders, index, calls, argVars,
                   sortVars, nameVars>>

\* Line 103 raises (no word in the caption, or the image cannot be written, which
\* may leave a truncated file): nothing catches it.
RenderFail ==
    /\ pc = "loop"
    /\ index <= Len(subfolders)
    /\ IsDir(subfolder_path)
    /\ \E truncated \in BOOLEAN :
           /\ WrapRaises(subfolder) => ~truncated
           /\ fs' = IF truncated THEN Put(fs, chapter_image_path, FileNode(<<>>)) ELSE fs
    /\ pc' = "crashed"
    /\ raised' = "render"
    /\ UNCHANGED <<output_folder, cbz_file, mergeLocals, calls, argVars, sortVars, nameVars>>

img == images[imgIndex]
src_img_path == subfolder_path \o <<img>>
dst_img_path == output_folder \o <<PageFileName(page_number, img)>>

\* shutil.copyfile cannot copy: the source is a directory, or source and
\* destination are the same file.
CopyRefused == IsDir(src_img_path) \/ src_img_path = dst_img_path

\* Lines 109-113: copy one entry of the chapter and count it.
CopyPage ==
    /\ pc = "copy"
    /\ imgIndex <= Len(images)
    /\ ~CopyRefused
    /\ fs' = Put(fs, dst_img_path, fs[src_img_path])
    /\ emitted' = Append(emitted,
           [index |-> page_number, kind |-> "page", chapter |-> subfolder,
            name |-> PageFileName(page_number, img), node |-> fs[src_img_path]])
    /\ page_number' = page_number + 1
    /\ imgIndex' = imgIndex + 1
    /\ UNCHANGED <<pc, output_folder, cbz_file, subfolders, index, images, calls,
                   raised, argVars, sortVars, nameVars>>

\* The copy wrapped in try/except: the entry is skipped and the loop goes on.
CopyFailSkipped ==
    /\ pc = "copy"
    /\ imgIndex <= Len(images)
    /\ raised' = "copy"
    /\ imgIndex' = imgIndex + 1
    /\ UNCHANGED <<pc, fs, output_folder, cbz_file, subfolders, index, images,
                   page_number, emitted, calls, argVars, sortVars, nameVars>>

\* Line 112 raises (refused, or an I/O error, which may leave a truncated
\* destination): nothing catches it.
CopyFail ==
    /\ pc = "copy"
    /\ imgIndex <= Len(images)
    /\ \E truncated \in BOOLEAN :
           /\ CopyRefused => ~truncated
           /\ fs' = IF truncated THEN Put(fs, dst_img_path, FileNode(<<>>)) ELSE fs
    /\ pc' = "crashed"
    /\ raised' = "copy"
    /\ UNCHANGED <<output_folder, cbz_file, mergeLocals, calls, argVars, sortVars, nameVars>>

\* Lines 109, 116: the chapter's entries are done; on to the next entry.
EndChapter ==
    /\ pc = "copy"
    /\ imgIndex > Len(images)
    /\ index' = index + 1
    /\ pc' = "loop"
    /\ UNCHANGED <<fs, output_folder, cbz_file, subfolders, images, imgIndex,
                   page_number, emitted, calls, raised, argVars, sortVars, nameVars>>

\* Line 98: the listing is exhausted; merge_folders returns to main, line 157.
MergeReturn ==
    /\ pc = "loop"
    /\ index > Len(subfolders)
    /\ pc' = "cbz"
    /\ UNCHANGED <<fs, output_folder, cbz_file, mergeLocals, calls, raised, argVars,
                   sortVars, nameVars>>

\* -------------------------------------------------------------- create_cbz
SubDirs(f, d) == {d \o <<n>> : n \in {m \in ListDirIn(f, d) : f[d \o <<m>>].kind = "dir"}}
\* os.walk's filenames: the entries of d that are not directories.
FileNamesIn(f, d) == {m \in ListDirIn(f, d) : f[d \o <<m>>].kind # "dir"}

\* The orders in which os.walk(d) can yield the directories: d first, then each
\* subdirectory's own walk, the subdirectories in no particular order.
RECURSIVE WalkLists(_, _), WalkAll(_, _)
WalkLists(f, d) == {<<d>> \o r : r \in WalkAll(f, SubDirs(f, d))}
WalkAll(f, D) ==
    IF D = {} THEN {<<>>}
    ELSE UNION {{w \o r : w \in WalkLists(f, c), r \in WalkAll(f, D \ {c})} : c \in D}

\* Lines 121-123: the files in the order they are written, each directory's
\* files in sorted order.
RECURSIVE PathLists(_, _)
PathLists(f, walk) ==
    IF walk = <<>> THEN {<<>>}
    ELSE {[i \in 1..Len(order) |-> Head(walk) \o <<order[i]>>] \o r :
              order \in SortedLists(FileNamesIn(f, Head(walk))),
              r \in PathLists(f, Tail(walk))}

\* What cbz.write reads at p after the entries acc: the file's content; of the
\* archive being written itself, what has reached the disk, nothing yet or the
\* entries so far.
ReadNodes(f, cbz, p, acc) ==
    IF p = cbz THEN {ZipNode(<<>>), ZipNode(acc)} ELSE {f[p]}

\* Line 124, file after file: each written under its path relative to root.
RECURSIVE WriteFiles(_, _, _, _, _)
WriteFiles(f, root, cbz, paths, acc) ==
    IF paths = <<>> THEN {acc}
    ELSE UNION {WriteFiles(f, root, cbz, Tail(paths),
                           Append(acc, ZipEntry(RelPath(Head(paths), root), n))) :
                n \in ReadNodes(f, cbz, Head(paths), acc)}

ArchiveLists(f, root, cbz, walk) ==
    UNION {WriteFiles(f, root, cbz, paths, <<>>) : paths \in PathLists(f, walk)}

\* The directories of a walk before the first whose listing sorted() raises on.
BeforeRaise(f, walk) ==
    LET bad == {i \in 1..Len(walk) : SortRaises(FileNamesIn(f, walk[i]))}
    IN  IF bad = {} THEN walk
        ELSE SubSeq(walk, 1, (CHOOSE i \in bad : \A j \in bad : i <= j) - 1)

\* Lines 119-124: open the archive for writing (created, or emptied), walk the
\* output folder, write every file.
CreateCbz ==
    /\ pc = "cbz"
    /\ calls' = calls \cup {"create_cbz"}
    /\ LET opened == Put(fs, cbz_file, ZipNode(<<>>))
       IN  \E walk \in WalkLists(opened, output_folder) :
           \E es \in ArchiveLists(opened, output_folder, cbz_file, BeforeRaise(opened, walk)) :
               /\ fs' = Put(fs, cbz_file, ZipNode(es))
               /\ IF BeforeRaise(opened, walk) = walk
                  THEN pc' = "done" /\ raised' = raised
                  ELSE pc' = "crashed" /\ raised' = "sorted"
    /\ UNCHANGED <<output_folder, cbz_file, mergeLocals, argVars, sortVars, nameVars>>

\* Line 124 raises on an I/O error: the archive keeps the entries written so far.
CreateCbzFail ==
    /\ pc = "cbz"
    /\ calls' = calls \cup {"create_cbz"}
    /\ LET opened == Put(fs, cbz_file, ZipNode(<<>>))
       IN  \E walk \in WalkLists(opened, output_folder) :
           \E es \in ArchiveLists(opened, output_folder, cbz_file, BeforeRaise(opened, walk)) :
           \E k \in 0..(Len(es) - 1) :
               fs' = Put(fs, cbz_file, ZipNode(SubSeq(es, 1, k)))
    /\ pc' = "crashed"
    /\ raised' = "write"
    /\ UNCHANGED <<output_folder, cbz_file, mergeLocals, argVars, sortVars, nameVars>>

Next ==
    \/ Preview
    \/ ReportMissing
    \/ Derive
    \/ MergeBegin
    \/ SkipEntry
    \/ RenderTitle
    \/ RenderFail
    \/ CopyPage
    \/ CopyFail
    \/ EndChapter
    \/ MergeReturn
    \/ CreateCbz
    \/ CreateCbzFail

\* One run of main on one filesystem.
Spec == Init /\ [][Next]_vars

\* ---------------------------------------------------- the sort key, alone
\* main stands still while a pure function is exercised.
IdleMain ==
    /\ pc = "idle"
    /\ fs = <<>> /\ fs0 = <<>>
    /\ test_image = NoArg /\ file_name = NoArg
    /\ big_folder_path = <<>> /\ output_folder = <<>> /\ cbz_file = <<>>
    /\ subfolders = <<>> /\ index = 0 /\ images = <<>> /\ imgIndex = 0
    /\ page_number = 0 /\ emitted = <<>> /\ calls = {} /\ raised = ""

\* The characters of the drawn file names: 0 1 2 B a and superscript two.
SortAlphabet == {48, 49, 50, 66, 97, 178}
SortNames == UNION {[1..n -> SortAlphabet] : n \in 0..MaxLen}

\* sorted([a, b], key=natural_sort_key): the keys are computed first (ValueError),
\* then b moves to the front exactly when key(b) < key(a) (TypeError when the two
\* keys do not compare).
SortedPair(a, b) ==
    LET ka == NaturalSortKey(a)
        kb == NaturalSortKey(b)
    IN  IF ~ka.ok \/ ~kb.ok THEN [raised |-> "ValueError", list |-> <<>>]
        ELSE IF KeyCmp(kb.toks, ka.toks) = "TypeError"
             THEN [raised |-> "TypeError", list |-> <<>>]
             ELSE IF KeyCmp(kb.toks, ka.toks) = "lt"
                  THEN [raised |-> "", list |-> <<b, a>>]
                  ELSE [raised |-> "", list |-> <<a, b>>]

Unsorted == [raised |-> "unsorted", list |-> <<>>]

InitSort ==
    /\ IdleMain
    /\ IdleName
    /\ fa \in SortNames
    /\ fb \in SortNames
    /\ sortedOut = Unsorted

SortTwo ==
    /\ sortedOut = Unsorted
    /\ sortedOut' = SortedPair(fa, fb)
    /\ UNCHANGED <<fa, fb, mainVars, nameVars>>

SpecSort == InitSort /\ [][SortTwo]_vars

\* ------------------------------------------------- the output names, alone
RECURSIVE Pow10(_)
Pow10(k) == IF k = 0 THEN 1 ELSE 10 * Pow10(k - 1)

\* The page indexes drawn: those within Window of a power of ten, where the
\* number of digits changes.
NameIndexes ==
    {n \in UNION {(Pow10(k) - Window)..(Pow10(k) + Window) : k \in 0..PadWidth} : n >= 1}

\* An output item: its Page Index, title or page, and the chapter's or the page's
\* own name ("c2", "1", "00").
NameBases == {<<99, 50>>, <<49>>, <<48, 48>>}
NameItems == [index : NameIndexes, title : BOOLEAN, base : NameBases]

\* Lines 102 and 111: the file name of an output item.
OutputFileName(item) ==
    IF item.title THEN TitleFileName(item.index, item.base)
    ELSE PageFileName(item.index, item.base)

InitName ==
    /\ IdleMain
    /\ IdleSort
    /\ itemI \in NameItems
    /\ itemJ \in NameItems
    /\ fileI = <<>>
    /\ fileJ = <<>>

NameTwo ==
    /\ fileI = <<>>
    /\ fileI' = OutputFileName(itemI)
    /\ fileJ' = OutputFileName(itemJ)
    /\ UNCHANGED <<itemI, itemJ, mainVars, sortVars>>

SpecName == InitName /\ [][NameTwo]_vars

\* ------------------------------------------------------------- the claims
Range(q) == {q[i] : i \in 1..Len(q)}

\* merge_folders has returned.
MergeDone == "merge_folders" \in calls /\ pc \in {"cbz", "done"}
\* merge_folders and create_cbz have both returned.
RunComplete == "create_cbz" \in calls /\ pc = "done"

\* The library as the user gave it: its chapters (the directory entries) and the
\* entries of its chapters, before the run.
LibraryItems ==
    {p \in DOMAIN fs0 :
        \/ Len(p) = Len(big_folder_path) + 1 /\ IsPrefix(big_folder_path, p)
           /\ fs0[p].kind = "dir"
        \/ Len(p) = Len(big_folder_path) + 2 /\ IsPrefix(big_folder_path, p)}

\* C1: when merge_folders has returned, it has emitted one item per chapter of
\* the library and one per entry of each chapter, C + sum(n_i) in all, and the
\* k-th item emitted has Page Index k: 1, 2, ... without gap or repeat.
C1_DenseIndexes ==
    MergeDone =>
        /\ Len(emitted) = Cardinality(LibraryItems)
        /\ \A k \in 1..Len(emitted) : emitted[k].index = k

\* C2: a chapter's title is emitted before that chapter's pages and has the
\* smaller Page Index; every item of a chapter that sorts earlier has a smaller
\* Page Index than every item of a chapter that sorts later; the items are
\* emitted in the order of their Page Index.
C2_TitleBeforePages ==
    /\ \A i, j \in 1..Len(emitted) : i < j => emitted[i].index < emitted[j].index
    /\ \A j \in 1..Len(emitted) :
           emitted[j].kind = "page" =>
               \E i \in 1..(j - 1) :
                   /\ emitted[i].kind = "title"
                   /\ emitted[i].chapter = emitted[j].chapter
                   /\ emitted[i].index < emitted[j].index
    /\ \A a, b \in Keyed({emitted[i].chapter : i \in 1..Len(emitted)}) :
           KeyCmp(a.key.toks, b.key.toks) = "lt" =>
               \A i, j \in 1..Len(emitted) :
                   (emitted[i].chapter = a.name /\ emitted[j].chapter = b.name) =>
                       i < j /\ emitted[i].index < emitted[j].index

\* C2's case: the pages of one chapter, then the title and a page of the next.
C2_Witness ==
    /\ MergeDone
    /\ \E i, j, k \in 1..Len(emitted) :
           /\ i < j /\ j < k
           /\ emitted[i].kind = "page"
           /\ emitted[j].kind = "title"
           /\ emitted[k].kind = "page"
           /\ emitted[i].chapter # emitted[j].chapter
           /\ emitted[k].chapter = emitted[j].chapter

\* The files below the output folder.
OutputFiles == {p \in DOMAIN fs : Under(output_folder, p) /\ fs[p].kind # "dir"}
ArchiveEntries == fs[cbz_file].entries

\* C3: after a complete run the archive's entries are exactly the files of the
\* output items this run's merge produced, whatever the output folder held before.
C3_ArchiveIsThisRun ==
    RunComplete =>
        {e.name : e \in Range(ArchiveEntries)} = {<<it.name>> : it \in Range(emitted)}

\* C4: create_cbz packages the output folder faithfully: every file that lies
\* below the output folder when create_cbz is called is, when it has returned,
\* exactly one entry of the archive, named by the file's path relative to the
\* output folder and holding the content the file had.
C4_FaithfulPackaging ==
    [][(pc = "cbz" /\ pc' = "done") =>
          \A p \in OutputFiles :
              LET entries == fs'[cbz_file].entries
                  at == {i \in 1..Len(entries) :
                            entries[i].name = RelPath(p, output_folder)}
              IN  /\ Cardinality(at) = 1
                  /\ \A i \in at : entries[i].node = fs[p]]_vars

\* C5: when the path typed at the prompt does not exist, main returns with the
\* filesystem as it was: no output folder, no title, no copy, no archive, and
\* neither merge_folders nor create_cbz called.
C5_MissingSourceNoEffect ==
    (~ExistsIn(fs0, big_folder_path) /\ ~Truthy(test_image) /\ pc # "start") =>
        /\ pc = "done"
        /\ fs = fs0
        /\ emitted = <<>>
        /\ calls = {"input"}
        /\ raised = ""

\* C5's case: main has returned on a missing path, beside what an earlier run left.
C5_Witness ==
    /\ pc = "done"
    /\ "input" \in calls
    /\ big_folder_path = NopeDir
    /\ ~ExistsIn(fs0, big_folder_path)
    /\ ExistsIn(fs0, OutputFolderOf(big_folder_path))

\* C6: whenever the preview flag is given with a caption, nothing on disk changes,
\* no path is prompted for, merge_folders and create_cbz are not called, and main
\* returns after displaying the image.
C6_PreviewNoEffect ==
    test_image.given =>
        /\ fs = fs0
        /\ "input" \notin calls
        /\ "merge_folders" \notin calls
        /\ "create_cbz" \notin calls
        /\ pc # "crashed"
        /\ pc = "done" => "show" \in calls

\* The claim's order on file names: the alternating runs compared position by
\* position, a digit run by its integer value, a non-digit run without case.
ClaimLess(a, b) ==
    LET pa == ReSplit(a)
        pb == ReSplit(b)
        same(i) == IF i % 2 = 0 THEN IntValue(pa[i]) = IntValue(pb[i])
                   ELSE Lower(pa[i]) = Lower(pb[i])
        D == {i \in 1..Min(Len(pa), Len(pb)) : ~same(i)}
    IN  IF D = {} THEN Len(pa) < Len(pb)
        ELSE LET i == CHOOSE j \in D : \A k \in D : j <= k
             IN  IF i % 2 = 0 THEN IntValue(pa[i]) < IntValue(pb[i])
                 ELSE StrLess(Lower(pa[i]), Lower(pb[i]))

\* The key's elements alternate str, int, str, ... and start with a str.
Alternates(toks) == \A i \in 1..Len(toks) : toks[i].isInt = (i % 2 = 0)

\* C7: for any two file names sorted() returns them in the claim's order, and
\* each key exists and alternates str, int, str, ..., so the keys always compare.
C7_NaturalOrder ==
    sortedOut # Unsorted =>
        /\ sortedOut.raised = ""
        /\ NaturalSortKey(fa).ok /\ Alternates(NaturalSortKey(fa).toks)
        /\ NaturalSortKey(fb).ok /\ Alternates(NaturalSortKey(fb).toks)
        /\ ~ClaimLess(sortedOut.list[2], sortedOut.list[1])

\* C8, as it holds: of two output items with Page Index i < j, where j has at
\* most PadWidth digits, the file name of i is less than the file name of j in
\* plain character order.
C8_LexOrderWithinPad ==
    (fileI # <<>> /\ itemI.index < itemJ.index /\ itemJ.index < Pow10(PadWidth)) =>
        StrLess(fileI, fileJ)

\* C8's case: one more digit in the later index, a title and a page.
C8_Witness ==
    /\ fileI # <<>>
    /\ itemI.index = 9 /\ itemJ.index = 10
    /\ itemI.title /\ ~itemJ.title
    /\ StrLess(fileI, fileJ)

\* C8, as claimed: the same for any two Page Indexes i < j.
C8_LexOrderAlways ==
    (fileI # <<>> /\ itemI.index < itemJ.index) => StrLess(fileI, fileJ)

\* C9: the run leaves the source library as it was: nothing at or below the
\* typed path is created, overwritten or removed.
C9_SourceUnchanged ==
    ExistsIn(fs0, big_folder_path) =>
        \A p \in DOMAIN fs \cup DOMAIN fs0 :
            IsPrefix(big_folder_path, p) =>
                p \in DOMAIN fs /\ p \in DOMAIN fs0 /\ fs[p] = fs0[p]

\* The archive path holds what it held before the run.
NoArchiveWritten ==
    /\ ExistsIn(fs, cbz_file) = ExistsIn(fs0, cbz_file)
    /\ ExistsIn(fs, cbz_file) => fs[cbz_file] = fs0[cbz_file]

\* Every item emitted is in the output folder, with its content.
EmittedKept ==
    \A k \in 1..Len(emitted) :
        /\ ExistsIn(fs, output_folder \o <<emitted[k].name>>)
        /\ fs[output_folder \o <<emitted[k].name>>] = emitted[k].node

MergeRaised == "merge_folders" \in calls /\ raised \in {"render", "copy"}

\* C10: once a render or a copy has raised in merge_folders the run is over: no
\* further item is emitted and nothing more is called, the items emitted before
\* are still in the output folder, create_cbz was not called and the archive path
\* holds what it held before.
C10_FailureAborts ==
    /\ [](MergeRaised =>
             /\ pc = "crashed"
             /\ "create_cbz" \notin calls
             /\ NoArchiveWritten
             /\ EmittedKept)
    /\ [][MergeRaised => (emitted' = emitted /\ calls' = calls /\ pc' = "crashed")]_vars

\* C10's case: a copy raised after a title and a page were emitted, with another
\* chapter still to come.
C10_Witness ==
    /\ MergeRaised
    /\ raised = "copy"
    /\ Len(emitted) >= 2
    /\ index < Len(subfolders)
    /\ \E k \in (index + 1)..Len(subfolders) : IsDir(big_folder_path \o <<subfolders[k]>>)

====
